---------------------------- MODULE Spec2Model ----------------------------
(***************************************************************************)
(* A model of lib/graph.js: the Graph / PromiseGraph facades, the          *)
(* GraphStream request pipeline (URL resolution, transport hand-off,       *)
(* response normalisation) and the client state they read and write.       *)
(*                                                                         *)
(* JavaScript strings are sequences of one-character strings, so that      *)
(* indexOf, substr, trim and the regular expressions of the source are     *)
(* computed character by character.  JavaScript values are tagged records  *)
(* [t |-> tag, v |-> payload].                                             *)
(***************************************************************************)
EXTENDS Integers, Sequences, FiniteSets, TLC

(***************************************************************************)
(* String primitives (String.prototype semantics, 0-based indices).        *)
(***************************************************************************)

MinOf(S) == CHOOSE i \in S : \A j \in S : i <= j

\* sub occurs in s at the 1-based position i
MatchAt(s, sub, i) ==
  /\ i >= 1
  /\ i + Len(sub) - 1 <= Len(s)
  /\ \A k \in 1..Len(sub) : s[i + k - 1] = sub[k]

Occurrences(s, sub) == {i \in 1..(Len(s) - Len(sub) + 1) : MatchAt(s, sub, i)}

FirstOf(occ) == IF occ = {} THEN -1 ELSE MinOf(occ) - 1

\* s.indexOf(sub): the 0-based index of the first occurrence, -1 when absent
IndexOf(s, sub) == FirstOf(Occurrences(s, sub))

\* the number of (possibly overlapping) occurrences of sub in s
Count(s, sub) == Cardinality(Occurrences(s, sub))

\* s.charAt(i)
CharAt(s, i) == IF i >= 0 /\ i < Len(s) THEN <<s[i + 1]>> ELSE <<>>

\* s.substr(start, n) for start >= 0
Substr(s, start, n) ==
  SubSeq(s, start + 1, IF start + n < Len(s) THEN start + n ELSE Len(s))

\* s.slice(start) for start >= 0
SliceFrom(s, start) == SubSeq(s, start + 1, Len(s))

IsSpace(c) == c \in {" ", "\t", "\n", "\r"}

RECURSIVE TrimLeft(_)
TrimLeft(s) ==
  IF s # <<>> /\ IsSpace(Head(s)) THEN TrimLeft(Tail(s)) ELSE s

RECURSIVE TrimRight(_)
TrimRight(s) ==
  IF s # <<>> /\ IsSpace(s[Len(s)]) THEN TrimRight(SubSeq(s, 1, Len(s) - 1)) ELSE s

\* s.trim()
Trim(s) == TrimRight(TrimLeft(s))

UpperCase == <<"A", "B", "C", "D", "E", "F", "G", "H", "I", "J", "K", "L", "M",
               "N", "O", "P", "Q", "R", "S", "T", "U", "V", "W", "X", "Y", "Z">>
LowerCase == <<"a", "b", "c", "d", "e", "f", "g", "h", "i", "j", "k", "l", "m",
               "n", "o", "p", "q", "r", "s", "t", "u", "v", "w", "x", "y", "z">>

\* the case folding of a regular expression's /i flag
ToLowerChar(c) ==
  IF \E i \in 1..26 : UpperCase[i] = c
    THEN LowerCase[CHOOSE i \in 1..26 : UpperCase[i] = c]
    ELSE c

ToLower(s) == [i \in 1..Len(s) |-> ToLowerChar(s[i])]

(***************************************************************************)
(* JavaScript values.                                                      *)
(***************************************************************************)

Undefined == [t |-> "undefined", v |-> <<>>]
Null      == [t |-> "null", v |-> <<>>]
Str(s)    == [t |-> "string", v |-> s]
Num(n)    == [t |-> "number", v |-> n]
Bool(b)   == [t |-> "boolean", v |-> b]
\* an object: its own properties, in insertion order, as <<key, value>> pairs
Obj(ps)   == [t |-> "object", v |-> ps]
Arr(es)   == [t |-> "array", v |-> es]
\* an Error instance of the named class
Exc(name) == [t |-> "exception", v |-> name]

\* typeof x
TypeOf(x) ==
  CASE x.t \in {"null", "object", "array", "exception"} -> "object"
    [] OTHER -> x.t

\* ToBoolean(x)
Truthy(x) ==
  CASE x.t \in {"undefined", "null"} -> FALSE
    [] x.t = "string"  -> x.v # <<>>
    [] x.t = "number"  -> x.v # 0
    [] x.t = "boolean" -> x.v
    [] OTHER -> TRUE

HasKey(o, k) == o.t = "object" /\ \E i \in 1..Len(o.v) : o.v[i][1] = k

\* o[k]: undefined for a missing key and for a value that holds no own properties
JsGet(o, k) ==
  IF HasKey(o, k)
    THEN o.v[CHOOSE i \in 1..Len(o.v) : o.v[i][1] = k][2]
    ELSE Undefined

\* o[k] = x on a list of pairs: a present key keeps its place
PairsSet(ps, k, x) ==
  IF \E i \in 1..Len(ps) : ps[i][1] = k
    THEN [i \in 1..Len(ps) |-> IF ps[i][1] = k THEN <<k, x>> ELSE ps[i]]
    ELSE Append(ps, <<k, x>>)

(***************************************************************************)
(* JSON.parse, as a recursive-descent parser over the characters: objects, *)
(* arrays, strings without escapes, true / false / null and unsigned       *)
(* integers, with white space between tokens.  A result is                 *)
(* [ok, val, pos]: pos is the 1-based position after the value.            *)
(***************************************************************************)

Digits == <<"0", "1", "2", "3", "4", "5", "6", "7", "8", "9">>
IsDigit(c) == \E i \in 1..10 : Digits[i] = c
DigitVal(c) == (CHOOSE i \in 1..10 : Digits[i] = c) - 1

S_true  == <<"t", "r", "u", "e">>
S_false == <<"f", "a", "l", "s", "e">>
S_null  == <<"n", "u", "l", "l">>

ParseFail == [ok |-> FALSE, val |-> Undefined, pos |-> 0]
ParseOk(x, p) == [ok |-> TRUE, val |-> x, pos |-> p]

RECURSIVE SkipWs(_, _)
SkipWs(s, i) == IF i <= Len(s) /\ IsSpace(s[i]) THEN SkipWs(s, i + 1) ELSE i

\* a string whose opening quote is s[i] and whose closing quote is s[j]
StringTo(s, i, j) ==
  IF \E k \in (i + 1)..(j - 1) : s[k] \in {"\\", "\n", "\t", "\r"}
    THEN ParseFail
    ELSE ParseOk(Str(SubSeq(s, i + 1, j - 1)), j + 1)

StringClose(s, i, close) ==
  IF close = {} THEN ParseFail ELSE StringTo(s, i, MinOf(close))

\* s[i] is the opening quote
ParseString(s, i) == StringClose(s, i, {j \in (i + 1)..Len(s) : s[j] = "\""})

RECURSIVE DigitsEnd(_, _)
DigitsEnd(s, i) == IF i <= Len(s) /\ IsDigit(s[i]) THEN DigitsEnd(s, i + 1) ELSE i

RECURSIVE DigitsVal(_)
DigitsVal(ds) ==
  IF ds = <<>> THEN 0
  ELSE 10 * DigitsVal(SubSeq(ds, 1, Len(ds) - 1)) + DigitVal(ds[Len(ds)])

\* the digits s[i] .. s[e - 1]
NumberTo(s, i, e) ==
  IF e <= Len(s) /\ (IsDigit(s[e]) \/ s[e] \in {".", "e", "E"})
    THEN ParseFail
    ELSE ParseOk(Num(DigitsVal(SubSeq(s, i, e - 1))), e)

\* s[i] is a digit; a leading zero ends the number
ParseNumber(s, i) == NumberTo(s, i, IF s[i] = "0" THEN i + 1 ELSE DigitsEnd(s, i))

RECURSIVE ParseValue(_, _), ValueAt(_, _), ObjectAt(_, _), ArrayAt(_, _),
          ParseMembers(_, _, _), MemberColon(_, _, _), MemberValue(_, _, _, _),
          MemberNext(_, _, _, _), MemberEnd(_, _, _),
          ParseElements(_, _, _), ElementNext(_, _, _), ElementEnd(_, _, _)

ParseValue(s, i0) == ValueAt(s, SkipWs(s, i0))

\* the value that starts at s[i]
ValueAt(s, i) ==
  IF i > Len(s) THEN ParseFail
  ELSE CASE s[i] = "{"  -> ObjectAt(s, SkipWs(s, i + 1))
         [] s[i] = "["  -> ArrayAt(s, SkipWs(s, i + 1))
         [] s[i] = "\"" -> ParseString(s, i)
         [] IsDigit(s[i]) -> ParseNumber(s, i)
         [] MatchAt(s, S_true, i)  -> ParseOk(Bool(TRUE), i + 4)
         [] MatchAt(s, S_false, i) -> ParseOk(Bool(FALSE), i + 5)
         [] MatchAt(s, S_null, i)  -> ParseOk(Null, i + 4)
         [] OTHER -> ParseFail

\* after "{"
ObjectAt(s, j) ==
  IF j <= Len(s) /\ s[j] = "}" THEN ParseOk(Obj(<<>>), j + 1)
  ELSE ParseMembers(s, j, <<>>)

\* after "["
ArrayAt(s, j) ==
  IF j <= Len(s) /\ s[j] = "]" THEN ParseOk(Arr(<<>>), j + 1)
  ELSE ParseElements(s, j, <<>>)

\* the members of an object from position i on; acc holds those read so far
ParseMembers(s, i, acc) ==
  IF i > Len(s) \/ s[i] # "\"" THEN ParseFail
  ELSE MemberColon(s, acc, ParseString(s, i))

\* k is the key as parsed
MemberColon(s, acc, k) ==
  IF ~k.ok THEN ParseFail ELSE MemberValue(s, acc, k, SkipWs(s, k.pos))

\* c is where the colon must be
MemberValue(s, acc, k, c) ==
  IF c > Len(s) \/ s[c] # ":" THEN ParseFail
  ELSE MemberNext(s, acc, k, ParseValue(s, c + 1))

\* x is the member's value as parsed: a key seen again takes the later value
MemberNext(s, acc, k, x) ==
  IF ~x.ok THEN ParseFail
  ELSE MemberEnd(s, PairsSet(acc, k.val.v, x.val), SkipWs(s, x.pos))

\* n is where "," or "}" must be
MemberEnd(s, acc, n) ==
  IF n > Len(s) THEN ParseFail
  ELSE IF s[n] = "}" THEN ParseOk(Obj(acc), n + 1)
  ELSE IF s[n] = "," THEN ParseMembers(s, SkipWs(s, n + 1), acc)
  ELSE ParseFail

\* the elements of an array from position i on
ParseElements(s, i, acc) == ElementNext(s, acc, ParseValue(s, i))

ElementNext(s, acc, x) ==
  IF ~x.ok THEN ParseFail
  ELSE ElementEnd(s, Append(acc, x.val), SkipWs(s, x.pos))

ElementEnd(s, acc, n) ==
  IF n > Len(s) THEN ParseFail
  ELSE IF s[n] = "]" THEN ParseOk(Arr(acc), n + 1)
  ELSE IF s[n] = "," THEN ParseElements(s, n + 1, acc)
  ELSE ParseFail

\* the whole text must be one value
WholeText(s, r) == IF r.ok /\ SkipWs(s, r.pos) > Len(s) THEN r ELSE ParseFail

\* JSON.parse(s): ok is FALSE where JSON.parse throws a SyntaxError
JsonParse(s) == WholeText(s, ParseValue(s, 1))

(***************************************************************************)
(* url.parse(s, true).query for an s that starts with "?": the text        *)
(* between the first "?" and the first "#", trimmed, split at "&" and at   *)
(* the first "=" of each part.  A repeated key collects its values in an   *)
(* array.  (Percent escapes and "+" are not decoded here: the bodies of    *)
(* the model hold neither.)                                                *)
(***************************************************************************)

RECURSIVE SplitOn(_, _), SplitAt(_, _, _)
SplitOn(s, c) ==
  IF \E i \in 1..Len(s) : s[i] = c
    THEN SplitAt(s, c, MinOf({i \in 1..Len(s) : s[i] = c}))
    ELSE <<s>>

SplitAt(s, c, i) == <<SubSeq(s, 1, i - 1)>> \o SplitOn(SubSeq(s, i + 1, Len(s)), c)

\* the value of a key seen again: its values collect in an array
QueryAgain(old, x) ==
  IF old.t = "array" THEN Arr(Append(old.v, Str(x))) ELSE Arr(<<old, Str(x)>>)

\* querystring's rule for one key and value
QueryAdd(ps, k, x) ==
  IF \E i \in 1..Len(ps) : ps[i][1] = k
    THEN PairsSet(ps, k, QueryAgain(ps[CHOOSE i \in 1..Len(ps) : ps[i][1] = k][2], x))
    ELSE Append(ps, <<k, Str(x)>>)

\* one part of the query, split at its first "=" (at index eq)
QueryPart(acc, p, eq) ==
  IF p = <<>> THEN acc
  ELSE IF eq = -1 THEN QueryAdd(acc, p, <<>>)
  ELSE QueryAdd(acc, SubSeq(p, 1, eq), SliceFrom(p, eq + 1))

RECURSIVE QueryFold(_, _)
QueryFold(parts, acc) ==
  IF parts = <<>> THEN acc
  ELSE QueryFold(Tail(parts), QueryPart(acc, Head(parts), IndexOf(Head(parts), <<"=">>)))

\* s up to its first c
Before(s, at) == IF at = -1 THEN s ELSE SubSeq(s, 1, at)

\* what follows the first "?", empty when there is none
QueryOf(nohash) ==
  IF IndexOf(nohash, <<"?">>) = -1 THEN <<>>
  ELSE SliceFrom(nohash, IndexOf(nohash, <<"?">>) + 1)

NoHash(t) == Before(t, IndexOf(t, <<"#">>))

UrlParseQuery(s) == Obj(QueryFold(SplitOn(QueryOf(NoHash(Trim(s))), "&"), <<>>))

(***************************************************************************)
(* Character codes, percent-encoding, qs.stringify and JSON.stringify.     *)
(***************************************************************************)

\* the printable ASCII characters, from code 32 on (the grave accent, code 96,
\* is left out: no string of the model holds it)
Ascii ==
  <<" ", "!", "\"", "#", "$", "%", "&", "'", "(", ")", "*", "+",
    ",", "-", ".", "/", "0", "1", "2", "3", "4", "5", "6", "7",
    "8", "9", ":", ";", "<", "=", ">", "?", "@", "A", "B", "C",
    "D", "E", "F", "G", "H", "I", "J", "K", "L", "M", "N", "O",
    "P", "Q", "R", "S", "T", "U", "V", "W", "X", "Y", "Z", "[",
    "\\", "]", "^", "_", "", "a", "b", "c", "d", "e", "f", "g",
    "h", "i", "j", "k", "l", "m", "n", "o", "p", "q", "r", "s",
    "t", "u", "v", "w", "x", "y", "z", "{", "|", "}", "~">>

\* c.charCodeAt(0)
CharCode(c) == 31 + (CHOOSE i \in 1..Len(Ascii) : Ascii[i] = c)

\* the two hex digits of a byte
HexByte(n, digits) == <<digits[(n \div 16) + 1], digits[(n % 16) + 1]>>

IsUnreserved(c) ==
  \/ IsDigit(c)
  \/ \E i \in 1..26 : c = UpperCase[i] \/ c = LowerCase[i]
  \/ c \in {"-", ".", "_", "~"}

\* qs's encoder: every character but an unreserved one becomes %XX
RECURSIVE QsEncode(_)
QsEncode(s) ==
  IF s = <<>> THEN <<>>
  ELSE (IF IsUnreserved(Head(s)) THEN <<Head(s)>>
        ELSE <<"%">> \o HexByte(CharCode(Head(s)), <<"0", "1", "2", "3", "4", "5", "6", "7", "8", "9", "A", "B", "C", "D", "E", "F">>)) \o QsEncode(Tail(s))

\* one key and value as qs writes them: null gives "key="
QsPair(k, x) ==
  QsEncode(k) \o <<"=">> \o (IF x.t = "string" THEN QsEncode(x.v) ELSE <<>>)

\* qs.stringify of a list of pairs: an undefined value is skipped
RECURSIVE QsPairs(_)
QsPairs(ps) ==
  IF ps = <<>> THEN <<>>
  ELSE IF Head(ps)[2].t = "undefined" THEN QsPairs(Tail(ps))
  ELSE <<QsPair(Head(ps)[1], Head(ps)[2])>> \o QsPairs(Tail(ps))

RECURSIVE Join(_, _)
Join(parts, sep) ==
  IF parts = <<>> THEN <<>>
  ELSE IF Len(parts) = 1 THEN Head(parts)
  ELSE Head(parts) \o sep \o Join(Tail(parts), sep)

\* qs.stringify(o): the empty string for a value that is no object
QsStringify(o) == IF o.t = "object" THEN Join(QsPairs(o.v), <<"&">>) ELSE <<>>

RECURSIVE NatDigits(_)
NatDigits(n) ==
  IF n < 10 THEN <<Digits[n + 1]>> ELSE NatDigits(n \div 10) \o <<Digits[(n % 10) + 1]>>

\* JSON.stringify(x) for values whose strings need no escape
RECURSIVE JsonStringify(_), JsonMembers(_), JsonElements(_)
JsonStringify(x) ==
  CASE x.t = "string"  -> <<"\"">> \o x.v \o <<"\"">>
    [] x.t = "number"  -> NatDigits(x.v)
    [] x.t = "boolean" -> IF x.v THEN S_true ELSE S_false
    [] x.t = "object"  -> <<"{">> \o Join(JsonMembers(x.v), <<",">>) \o <<"}">>
    [] x.t = "array"   -> <<"[">> \o Join(JsonElements(x.v), <<",">>) \o <<"]">>
    [] OTHER -> S_null

JsonMembers(ps) ==
  IF ps = <<>> THEN <<>>
  ELSE (IF Head(ps)[2].t \in {"undefined", "function"} THEN <<>>
        ELSE <<(<<"\"">> \o Head(ps)[1] \o <<"\"", ":">> \o JsonStringify(Head(ps)[2]))>>)
       \o JsonMembers(Tail(ps))

JsonElements(es) ==
  IF es = <<>> THEN <<>>
  ELSE <<JsonStringify(Head(es))>> \o JsonElements(Tail(es))

\* Object.assign({}, a, b) on lists of pairs
RECURSIVE Assign(_, _)
Assign(a, b) ==
  IF b = <<>> THEN a ELSE Assign(PairsSet(a, Head(b)[1], Head(b)[2]), Tail(b))

(***************************************************************************)
(* crypto.createHmac('sha256', key).update(msg).digest('hex').  The digest *)
(* itself is computed by node's crypto and stands here as a hex string     *)
(* that determines the pair (key, msg): the bytes of the key, a zero byte  *)
(* and the bytes of the message.                                           *)
(***************************************************************************)

RECURSIVE HexBytes(_)
HexBytes(s) ==
  IF s = <<>> THEN <<>> ELSE HexByte(CharCode(Head(s)), <<"0", "1", "2", "3", "4", "5", "6", "7", "8", "9", "a", "b", "c", "d", "e", "f">>) \o HexBytes(Tail(s))

HmacSha256Hex(key, msg) == HexBytes(key) \o <<"0", "0">> \o HexBytes(msg)

(***************************************************************************)
(* GraphStream: URL resolution.                                            *)
(***************************************************************************)

S_access_token_eq    == <<"a", "c", "c", "e", "s", "s", "_", "t", "o", "k", "e", "n", "=">>
S_access_token       == <<"a", "c", "c", "e", "s", "s", "_", "t", "o", "k", "e", "n">>
S_appsecret_proof    == <<"a", "p", "p", "s", "e", "c", "r", "e", "t", "_", "p", "r", "o", "o", "f">>
S_appsecret_proof_eq == <<"a", "p", "p", "s", "e", "c", "r", "e", "t", "_", "p", "r", "o", "o", "f", "=">>
S_http               == <<"h", "t", "t", "p">>

\* ~s.indexOf('?') ? '&' : '?'
Joiner(s) == IF IndexOf(s, <<"?">>) # -1 THEN <<"&">> ELSE <<"?">>

\* s up to its first "&"
UpToAmp(s) == Before(s, IndexOf(s, <<"&">>))

\* the capture ([^&]*) of a match that starts at index at
AccessTokenCapture(s, at) ==
  IF at = -1 THEN <<>> ELSE <<UpToAmp(SliceFrom(s, at + Len(S_access_token_eq)))>>

\* /access_token=([^&]*)/.exec(s): the capture of the first match, as a list of
\* no or one string
AccessTokenExec(s) == AccessTokenCapture(s, IndexOf(s, S_access_token_eq))

\* this.graph.getAccessToken(), whatever the url embeds
SessionAccessTokenOfClient(results, token) == token

\* results ? results[1] : this.graph.getAccessToken()
SessionAccessToken(results, token) ==
  IF results # <<>> THEN Str(results[1]) ELSE token

\* add leading slash
AddLeadingSlash(url) ==
  IF CharAt(url, 0) # <<"/">> /\ Substr(url, 0, 4) # S_http THEN <<"/">> \o url ELSE url

\* add access token to url, always as the first parameter
AddAccessTokenAsFirst(url, token) ==
  IF Truthy(token) /\ IndexOf(url, S_access_token_eq) = -1
    THEN url \o <<"?">> \o S_access_token_eq \o token.v
    ELSE url

\* add access token to url
AddAccessToken(url, token) ==
  IF Truthy(token) /\ IndexOf(url, S_access_token_eq) = -1
    THEN url \o Joiner(url) \o S_access_token_eq \o token.v
    ELSE url

\* add appsecret_proof to the url
AddAppSecretProof(url, sessionAccessToken, secret) ==
  IF /\ Truthy(sessionAccessToken)
     /\ Truthy(secret)
     /\ IndexOf(url, S_appsecret_proof) = -1
    THEN url \o Joiner(url) \o S_appsecret_proof_eq
             \o HmacSha256Hex(secret.v, sessionAccessToken.v)
    ELSE url

\* cleanUrl after url.trim()
CleanTrimmed(url, token, secret) ==
  AddAppSecretProof(AddAccessToken(AddLeadingSlash(url), token),
                    SessionAccessToken(AccessTokenExec(url), token),
                    secret)

\* cleanUrl(url), reading the client's access token and app secret
CleanUrl(rawUrl, token, secret) == CleanTrimmed(Trim(rawUrl), token, secret)

\* the host and version prefix of a url that does not start with http
AddHost(url, host, version) ==
  IF Substr(url, 0, 4) # S_http THEN host \o <<"/", "v">> \o version \o url ELSE url

\* prepareUrl(url)
PrepareUrl(rawUrl, token, secret, host, version) ==
  AddHost(CleanUrl(rawUrl, token, secret), host, version)

(***************************************************************************)
(* GraphStream: response normalisation.                                    *)
(***************************************************************************)

S_error     == <<"e", "r", "r", "o", "r">>
S_message   == <<"m", "e", "s", "s", "a", "g", "e">>
S_exception == <<"e", "x", "c", "e", "p", "t", "i", "o", "n">>
S_image     == <<"i", "m", "a", "g", "e">>
S_ErrorParsingJson  == <<"E", "r", "r", "o", "r", " ", "p", "a", "r", "s", "i", "n", "g", " ", "j", "s", "o", "n">>

ParseError(e) ==
  Obj(<< <<S_message, Str(S_ErrorParsingJson)>>, <<S_exception, e>> >>)

TransportError(e) ==
  Obj(<< <<S_message, Str(<<"E", "r", "r", "o", "r", " ", "p", "r", "o", "c", "e", "s", "s", "i", "n", "g", " ", "h", "t", "t", "p", "s", " ", "r", "e", "q", "u", "e", "s", "t">>)>>, <<S_exception, e>> >>)

Tried(json)  == [thrown |-> FALSE, json |-> json, e |-> Undefined]
Thrown(e)    == [thrown |-> TRUE, json |-> Null, e |-> e]

\* json = JSON.parse(body)
TryJson(r) == IF r.ok THEN Tried(r.val) ELSE Thrown(Exc("SyntaxError"))

\* if (!~body.indexOf('=')) body = 'data=' + body
WithData(b) == IF IndexOf(b, <<"=">>) = -1 THEN <<"d", "a", "t", "a", "=">> \o b ELSE b

\* if (body.charAt(0) !== '?') body = '?' + body
WithQuestionMark(b) == IF CharAt(b, 0) # <<"?">> THEN <<"?">> \o b ELSE b

\* the try block of end(body) for a body that left json falsy: what it assigns to
\* json, or the exception it throws (a value that is no string has no indexOf)
EndTry(body) ==
  IF body.t # "string" THEN Thrown(Exc("TypeError"))
  ELSE IF IndexOf(body.v, <<"{">>) # -1 /\ IndexOf(body.v, <<"}">>) # -1
    THEN TryJson(JsonParse(body.v))
  ELSE Tried(UrlParseQuery(WithQuestionMark(WithData(body.v))))

\* this.callback(err, null) for a payload that holds an error
EndCallbackWithoutPayload(err, json) ==
  IF ~Truthy(err) /\ Truthy(json) /\ Truthy(JsGet(json, S_error))
    THEN [err |-> JsGet(json, S_error), res |-> Null]
    ELSE [err |-> err, res |-> json]

\* if (!err && json && 'error' in json) err = json.error
EndCallbackOnErrorKey(err, json) ==
  [err |-> IF ~Truthy(err) /\ Truthy(json) /\ HasKey(json, S_error)
             THEN JsGet(json, S_error) ELSE err,
   res |-> json]

\* if (!err && (json && json.error)) err = json.error; this.callback(err, json)
EndCallback(err, json) ==
  [err |-> IF ~Truthy(err) /\ Truthy(json) /\ Truthy(JsGet(json, S_error))
             THEN JsGet(json, S_error) ELSE err,
   res |-> json]

\* end with an empty catch block
EndTriedCatchingNothing(json0, try) ==
  IF try.thrown THEN EndCallback(Null, json0)
  ELSE EndCallback(Null, try.json)

\* end after the try block ran
EndTried(json0, try) ==
  IF try.thrown THEN EndCallback(ParseError(try.e), json0)
  ELSE EndCallback(Null, try.json)

\* end(body): the two arguments it hands to this.callback
End(body) ==
  IF TypeOf(body) # "string" /\ Truthy(body) THEN EndCallback(Null, body)
  ELSE EndTried(IF TypeOf(body) = "string" THEN Null ELSE body, EndTry(body))

(***************************************************************************)
(* Graph: the synchronous part of each facade operation.  Its outcome is   *)
(* an effect: it throws, it invokes a callback at once, or it constructs a *)
(* GraphStream.                                                            *)
(***************************************************************************)

\* a function value that is the named callback
Callback(name) == [t |-> "function", v |-> name]

Throws == [kind |-> "throw", method |-> "", url |-> <<>>, postData |-> Undefined,
           callback |-> Undefined, err |-> Undefined, res |-> Undefined]

\* callback(err, res): a TypeError when callback is no function
CallNow(callback, err, res) ==
  IF TypeOf(callback) = "function"
    THEN [kind |-> "callback", method |-> "", url |-> <<>>, postData |-> Undefined,
          callback |-> callback, err |-> err, res |-> res]
    ELSE Throws

\* new GraphStream(graph, method, url, postData, callback): the constructor's
\* shift of its arguments and its default callback
NewGraphStream(method, url, postData, callback) ==
  LET cb == IF TypeOf(callback) = "undefined" THEN postData ELSE callback
      pd == IF TypeOf(callback) = "undefined" THEN Obj(<<>>) ELSE postData
  IN [kind |-> "stream", method |-> method, url |-> url, postData |-> pd,
      callback |-> IF Truthy(cb) THEN cb ELSE Callback("noop"),
      err |-> Undefined, res |-> Undefined]

InvalidUrl == Obj(<< <<S_message, Str(<<"G", "r", "a", "p", "h", " ", "a", "p", "i", " ", "u", "r", "l", " ", "m", "u", "s", "t", " ", "b", "e", " ", "a", " ", "s", "t", "r", "i", "n", "g">>)>> >>)

\* Graph.get(url, params, callback)
GraphGet(url, params0, callback0) ==
  LET shift    == TypeOf(params0) = "function"
      callback == IF shift THEN params0 ELSE callback0
      params   == IF shift THEN Null ELSE params0
  IN IF TypeOf(url) # "string" THEN CallNow(callback, InvalidUrl, Null)
     ELSE NewGraphStream("GET",
            IF Truthy(params) THEN url.v \o Joiner(url.v) \o QsStringify(params)
                              ELSE url.v,
            callback, Undefined)

\* the post data of a call that gave none
DefaultPostData(url, token) ==
  IF IndexOf(url, S_access_token) # -1 THEN Obj(<<>>)
  ELSE Obj(<< <<S_access_token, token>> >>)

\* Graph.post(url, postData, callback)
GraphPost(url, postData0, callback0, token) ==
  IF TypeOf(url) # "string" THEN CallNow(callback0, InvalidUrl, Null)
  ELSE LET shift == TypeOf(postData0) = "function"
       IN NewGraphStream("POST", url.v,
            IF shift THEN DefaultPostData(url.v, token) ELSE postData0,
            IF shift THEN postData0 ELSE callback0)

S_method_delete == <<"m", "e", "t", "h", "o", "d", "=", "d", "e", "l", "e", "t", "e">>

\* url.match(/[?|&]method=delete/) without the i flag
MatchesMethodDeleteCaseSensitive(s) ==
  \E i \in 1..Len(s) :
    s[i] \in {"?", "|", "&"} /\ MatchAt(s, S_method_delete, i + 1)

\* url.match(/[?|&]method=delete/i)
MatchesMethodDelete(s) ==
  \E i \in 1..Len(s) :
    s[i] \in {"?", "|", "&"} /\ MatchAt(ToLower(s), S_method_delete, i + 1)

\* Graph.del(url, postData, callback): url.match is no function on a value that is
\* no string
GraphDel(url, postData0, callback0, token) ==
  IF url.t # "string" THEN Throws
  ELSE LET url1  == IF ~MatchesMethodDelete(url.v)
                      THEN url.v \o Joiner(url.v) \o S_method_delete
                      ELSE url.v
           shift == TypeOf(postData0) = "function"
       IN GraphPost(Str(url1),
            IF shift THEN DefaultPostData(url1, token) ELSE postData0,
            IF shift THEN postData0 ELSE callback0,
            token)

\* Graph.batch(reqs, additionalData, callback)
GraphBatch(reqs, additionalData0, callback0, token) ==
  IF reqs.t # "array" THEN CallNow(callback0, Obj(<< <<S_message, Str(<<"G", "r", "a", "p", "h", " ", "a", "p", "i", " ", "b", "a", "t", "c", "h", " ", "r", "e", "q", "u", "e", "s", "t", "s", " ", "m", "u", "s", "t", " ", "b", "e", " ", "a", "n", " ", "a", "r", "r", "a", "y">>)>> >>), Null)
  ELSE LET shift == TypeOf(additionalData0) = "function"
           extra == IF shift THEN Obj(<<>>) ELSE additionalData0
       IN NewGraphStream("POST", <<>>,
            Obj(Assign(<< <<S_access_token, token>>,
                          <<<<"b", "a", "t", "c", "h">>, Str(JsonStringify(reqs))>> >>,
                       IF extra.t = "object" THEN extra.v ELSE <<>>)),
            IF shift THEN additionalData0 ELSE callback0)

S_oauth_access_token == <<"/", "o", "a", "u", "t", "h", "/", "a", "c", "c", "e", "s", "s", "_", "t", "o", "k", "e", "n">>
S_fb_exchange_token  == <<"f", "b", "_", "e", "x", "c", "h", "a", "n", "g", "e", "_", "t", "o", "k", "e", "n">>

\* Graph.authorize(params, callback): callback is wrapped
GraphAuthorize(params) ==
  GraphGet(Str(S_oauth_access_token), params, Callback("authorize"))

\* the two fields extendAccessToken writes into params
ExtendParams(params, token) ==
  Obj(PairsSet(PairsSet(params.v, <<"g", "r", "a", "n", "t", "_", "t", "y", "p", "e">>, Str(S_fb_exchange_token)),
               S_fb_exchange_token,
               IF Truthy(JsGet(params, S_access_token))
                 THEN JsGet(params, S_access_token) ELSE token))

\* Graph.extendAccessToken(params, callback): callback is wrapped
GraphExtendAccessToken(params, token) ==
  GraphGet(Str(S_oauth_access_token), ExtendParams(params, token), Callback("extend"))

\* PromiseGraph.get(url, params): util.promisify supplies the callback
PromiseGet(url, params) == GraphGet(url, params, Callback("promisify"))

(***************************************************************************)
(* The state: one client, and the call it has in flight.                   *)
(***************************************************************************)

VARIABLES
  accessToken,   \* Graph.#accessToken
  appSecret,     \* Graph.#appSecret
  graphUrl,      \* Graph.#graphUrl
  graphVersion,  \* Graph.#graphVersion
  oauthDialogUrl,        \* Graph.#oauthDialogUrl
  oauthDialogUrlMobile,  \* Graph.#oauthDialogUrlMobile
  pc,            \* "idle", "sent" (the transport holds the request) or "done"
  call,          \* the facade operation under way and what it was given
  stream,        \* the GraphStream of the call: its options and its callback
  response,      \* what the transport reported for the request
  cbLog,         \* the invocations (err, res) of the call's completion callback
  threw,         \* an exception escaped the operation or one of its handlers
  promise        \* PromiseGraph: the promise the operation returned

vars == <<accessToken, appSecret, graphUrl, graphVersion, oauthDialogUrl,
          oauthDialogUrlMobile, pc, call, stream, response, cbLog, threw, promise>>

\* the client's fields besides the access token
settings == <<appSecret, graphUrl, graphVersion, oauthDialogUrl, oauthDialogUrlMobile>>

DefaultGraphUrl     == <<"h", "t", "t", "p", "s", ":", "/", "/", "g", "r", "a", "p", "h", ".", "f", "a", "c", "e", "b", "o", "o", "k", ".", "c", "o", "m">>
DefaultGraphVersion == <<"2", ".", "9">>

NoCall == [op |-> "none", facade |-> "none", url |-> Undefined,
           paramsToken |-> FALSE, tokenBefore |-> Undefined]
NoStream == [method |-> "", url |-> <<>>, uri |-> <<>>, body |-> Undefined,
             followRedirect |-> FALSE, callback |-> Undefined]
NoResponse == [kind |-> "none", mode |-> "", contentType |-> Undefined,
               location |-> Undefined, body |-> Undefined]
NoPromise  == [state |-> "none", value |-> Undefined]

\* the GraphStream constructor: the options it fixes and the request it issues
GraphStreamInit(e) ==
  [method   |-> e.method,
   url      |-> e.url,
   uri      |-> PrepareUrl(e.url, accessToken, appSecret, graphUrl, graphVersion),
   body     |-> IF e.method = "POST" THEN Str(QsStringify(e.postData)) ELSE Undefined,
   followRedirect |-> FALSE,
   callback |-> e.callback]

(***************************************************************************)
(* Callbacks.  An invocation of the stream's callback is logged; the       *)
(* wrappers of authorize and extendAccessToken, and the continuation of    *)
(* the promise-based operations, may write the access token.  A context is *)
(* [token, log, promise].                                                  *)
(***************************************************************************)

\* the callback Graph.authorize hands to get
AuthorizeCallbackToken(token, err, res) ==
  IF ~Truthy(err) THEN JsGet(res, S_access_token) ELSE token

\* the callback of extendAccessToken without the test of params.access_token
ExtendCallbackTokenAlways(token, paramsToken, err, res) ==
  IF ~Truthy(err) THEN JsGet(res, S_access_token) ELSE token

\* the callback Graph.extendAccessToken hands to get
ExtendCallbackToken(token, paramsToken, err, res) ==
  IF ~Truthy(err) /\ ~paramsToken THEN JsGet(res, S_access_token) ELSE token

\* PromiseGraph.authorize after its await
PromiseAuthorizeToken(token, res) == JsGet(res, S_access_token)

\* PromiseGraph.extendAccessToken after its await
PromiseExtendToken(token, paramsToken, res) ==
  IF paramsToken THEN JsGet(res, S_access_token) ELSE token

\* util.promisify's callback, then the operation's continuation: only the first
\* invocation settles the promise
Promisified(c, op, paramsToken, err, res) ==
  IF c.promise.state # "pending" THEN c
  ELSE IF Truthy(err)
    THEN [c EXCEPT !.promise = [state |-> "rejected", value |-> err]]
  ELSE [c EXCEPT !.promise = [state |-> "resolved", value |-> res],
                 !.token = IF op = "authorize" THEN PromiseAuthorizeToken(c.token, res)
                           ELSE IF op = "extendAccessToken"
                             THEN PromiseExtendToken(c.token, paramsToken, res)
                           ELSE c.token]

\* this.callback(err, res)
Invoke(c, callback, op, paramsToken, err, res) ==
  LET logged == [c EXCEPT !.log = Append(c.log, [err |-> err, res |-> res])]
  IN CASE callback.v = "authorize" ->
            [logged EXCEPT !.token = AuthorizeCallbackToken(c.token, err, res)]
       [] callback.v = "extend" ->
            [logged EXCEPT !.token = ExtendCallbackToken(c.token, paramsToken, err, res)]
       [] callback.v = "promisify" -> Promisified(logged, op, paramsToken, err, res)
       [] OTHER -> logged

Context == [token |-> accessToken, log |-> cbLog, promise |-> promise]

\* the context becomes the state
Commit(c) ==
  /\ accessToken' = c.token
  /\ cbLog' = c.log
  /\ promise' = c.promise

(***************************************************************************)
(* Starting an operation: the effect of its synchronous part is applied.   *)
(***************************************************************************)

Start(op, facade, url, paramsToken, e) ==
  /\ pc = "idle"
  /\ call' = [op |-> op, facade |-> facade, url |-> url,
              paramsToken |-> paramsToken, tokenBefore |-> accessToken]
  /\ response' = NoResponse
  /\ UNCHANGED settings
  /\ LET p0 == IF facade = "promise" THEN [state |-> "pending", value |-> Undefined]
               ELSE NoPromise
         c0 == [token |-> accessToken, log |-> <<>>, promise |-> p0]
     IN CASE e.kind = "throw" ->
               /\ pc' = "done"
               /\ stream' = NoStream
               /\ threw' = TRUE
               /\ Commit([c0 EXCEPT !.promise =
                            IF facade = "promise"
                              THEN [state |-> "rejected", value |-> Exc("TypeError")]
                              ELSE NoPromise])
          [] e.kind = "callback" ->
               /\ pc' = "done"
               /\ stream' = NoStream
               /\ threw' = FALSE
               /\ Commit(Invoke(c0, e.callback, op, paramsToken, e.err, e.res))
          [] OTHER ->
               /\ pc' = "sent"
               /\ stream' = GraphStreamInit(e)
               /\ threw' = FALSE
               /\ Commit(c0)

\* graph.get(url, callback) or graph.get(url, params, callback)
Get(url, params, callback) ==
  Start("get", "callback", url, FALSE, GraphGet(url, params, callback))

\* graph.post(url, callback) or graph.post(url, postData, callback)
Post(url, postData, callback) ==
  Start("post", "callback", url, FALSE, GraphPost(url, postData, callback, accessToken))

\* graph.del(url, callback) or graph.del(url, postData, callback)
Del(url, postData, callback) ==
  Start("del", "callback", url, FALSE, GraphDel(url, postData, callback, accessToken))

\* graph.batch(reqs, callback) or graph.batch(reqs, additionalData, callback)
Batch(reqs, additionalData, callback) ==
  Start("batch", "callback", reqs, FALSE,
        GraphBatch(reqs, additionalData, callback, accessToken))

\* graph.authorize(params, callback)
Authorize(params) ==
  Start("authorize", "callback", Str(S_oauth_access_token), FALSE,
        GraphAuthorize(params))

\* graph.extendAccessToken(params, callback)
ExtendAccessToken(params) ==
  Start("extendAccessToken", "callback", Str(S_oauth_access_token),
        Truthy(JsGet(params, S_access_token)),
        GraphExtendAccessToken(params, accessToken))

\* promiseGraph.authorize(params)
PromiseAuthorize(params) ==
  Start("authorize", "promise", Str(S_oauth_access_token), FALSE,
        PromiseGet(Str(S_oauth_access_token), params))

\* promiseGraph.extendAccessToken(params)
PromiseExtendAccessToken(params) ==
  Start("extendAccessToken", "promise", Str(S_oauth_access_token),
        Truthy(JsGet(params, S_access_token)),
        PromiseGet(Str(S_oauth_access_token), ExtendParams(params, accessToken)))

(***************************************************************************)
(* The transport reports.  A failure reaches the stream as the request     *)
(* callback's err argument, as an 'error' event, or as both in the one     *)
(* emit; a response reaches the request callback with headers and a body.  *)
(***************************************************************************)

\* the stream's callback is invoked in context c
InvokeStream(c, err, res) ==
  Invoke(c, stream.callback, call.op, call.paramsToken, err, res)

\* the request callback's branch for err
FailedCallback(c, mode, e) ==
  IF mode \in {"callback", "both"} THEN InvokeStream(c, TransportError(e), Null) ELSE c

\* the listener of the request's 'error' event
FailedEvent(c, mode, e) ==
  IF mode \in {"event", "both"} THEN InvokeStream(c, TransportError(e), Null) ELSE c

\* both failure handlers of get() and of post(): the same two invocations
Failure(mode, e) ==
  /\ pc' = "done"
  /\ response' = [NoResponse EXCEPT !.kind = "error", !.mode = mode]
  /\ threw' = FALSE
  /\ Commit(FailedEvent(FailedCallback(Context, mode, e), mode, e))
  /\ UNCHANGED <<settings, call, stream>>

\* get(): the transport fails
GetFailure(mode, e) ==
  /\ pc = "sent"
  /\ stream.method = "GET"
  /\ Failure(mode, e)

\* post(): the transport fails
PostFailure(mode, e) ==
  /\ pc = "sent"
  /\ stream.method = "POST"
  /\ Failure(mode, e)

\* self.end(body): the callback gets what end hands it
Ended(r) == Commit(InvokeStream(Context, r.err, r.res))

\* the body get() hands to end: a marker for a response whose content type holds
\* "image"
GetBody(contentType, location, body) ==
  IF IndexOf(contentType.v, S_image) # -1
    THEN Obj(<< <<S_image, Bool(TRUE)>>, <<<<"l", "o", "c", "a", "t", "i", "o", "n">>, location>> >>)
    ELSE body

\* get(): the request callback with a response; reading indexOf of a missing
\* content-type header throws
GetResponse(contentType, location, body) ==
  /\ pc = "sent"
  /\ stream.method = "GET"
  /\ pc' = "done"
  /\ response' = [kind |-> "response", mode |-> "", contentType |-> contentType,
                  location |-> location, body |-> body]
  /\ UNCHANGED <<settings, call, stream>>
  /\ IF contentType.t # "string"
       THEN /\ threw' = TRUE
            /\ Commit(Context)
       ELSE /\ threw' = FALSE
            /\ Ended(End(GetBody(contentType, location, body)))

\* post(): the request callback with a response
PostResponse(contentType, location, body) ==
  /\ pc = "sent"
  /\ stream.method = "POST"
  /\ pc' = "done"
  /\ response' = [kind |-> "response", mode |-> "", contentType |-> contentType,
                  location |-> location, body |-> body]
  /\ threw' = FALSE
  /\ UNCHANGED <<settings, call, stream>>
  /\ Ended(End(body))

\* the completed call is over: its stream is dropped and the client is free
Return ==
  /\ pc = "done"
  /\ pc' = "idle"
  /\ call' = NoCall
  /\ stream' = NoStream
  /\ response' = NoResponse
  /\ cbLog' = <<>>
  /\ threw' = FALSE
  /\ promise' = NoPromise
  /\ UNCHANGED <<accessToken, settings>>

(***************************************************************************)
(* The setters.                                                            *)
(***************************************************************************)

SetAccessToken(token) ==
  /\ pc = "idle"
  /\ accessToken' = token
  /\ UNCHANGED <<settings, pc, call, stream, response, cbLog, threw, promise>>

SetAppSecret(token) ==
  /\ pc = "idle"
  /\ appSecret' = token
  /\ UNCHANGED <<accessToken, graphUrl, graphVersion, oauthDialogUrl,
                 oauthDialogUrlMobile, pc, call, stream, response, cbLog, threw,
                 promise>>

SetGraphUrl(url) ==
  /\ pc = "idle"
  /\ graphUrl' = url
  /\ UNCHANGED <<accessToken, appSecret, graphVersion, oauthDialogUrl,
                 oauthDialogUrlMobile, pc, call, stream, response, cbLog, threw,
                 promise>>

S_dialog_www    == <<"h", "t", "t", "p", "s", ":", "/", "/", "w", "w", "w", ".", "f", "a", "c", "e", "b", "o", "o", "k", ".", "c", "o", "m", "/", "v">>
S_dialog_mobile == <<"h", "t", "t", "p", "s", ":", "/", "/", "m", ".", "f", "a", "c", "e", "b", "o", "o", "k", ".", "c", "o", "m", "/", "v">>
S_dialog_oauth  == <<"/", "d", "i", "a", "l", "o", "g", "/", "o", "a", "u", "t", "h", "?">>

SetVersion(version) ==
  /\ pc = "idle"
  /\ graphVersion' = version
  /\ oauthDialogUrl' = S_dialog_www \o version \o S_dialog_oauth
  /\ oauthDialogUrlMobile' = S_dialog_mobile \o version \o S_dialog_oauth
  /\ UNCHANGED <<accessToken, appSecret, graphUrl, pc, call, stream, response,
                 cbLog, threw, promise>>

(***************************************************************************)
(* The values the operations are given.                                    *)
(***************************************************************************)

UserCallback == Callback("user")

T_user  == <<"T", "|", "1">>
T_url   == <<"U", "1">>
T_fresh == <<"R", "1">>

AccessTokens == {Null, Str(T_user)}
AppSecrets   == {Str(<<"s", "3">>)}
GraphUrls    == {<<"h", "t", "t", "p", ":", "/", "/", "l", "o", "c", "a", "l", "h", "o", "s", "t">>}
Versions     == {<<"3", ".", "1">>}

\* the url arguments of get, post and del
Paths ==
  { <<"m", "e">>,
    <<" ", "/", "m", "e", "?", "f", "i", "e", "l", "d", "s", "=", "i", "d", " ">>,
    <<"m", "e", "?", "a", "c", "c", "e", "s", "s", "_", "t", "o", "k", "e", "n", "=", "U", "1">>,
    <<"h", "t", "t", "p", "s", ":", "/", "/", "h", "/", "m", "e">>,
    <<"1", "2", "3", "?", "M", "E", "T", "H", "O", "D", "=", "D", "E", "L", "E", "T", "E">>,
    <<"1", "2", "3", "?", "x", "m", "e", "t", "h", "o", "d", "=", "d", "e", "l", "e", "t", "e">> }

UrlArgs == {Str(p) : p \in Paths} \cup {Undefined, Num(123), Obj(<<>>)}

GetParams == {Obj(<< <<<<"f", "i", "e", "l", "d", "s">>, Str(<<"i", "d", ",", "n", "a", "m", "e">>)>> >>)}
PostDatas == {Obj(<< <<S_message, Str(<<"h", "i", " ", "y", "o", "u">>)>> >>)}

BatchReqs ==
  { Arr(<< Obj(<< <<<<"m", "e", "t", "h", "o", "d">>, Str(<<"G", "E", "T">>)>>, <<<<"r", "e", "l", "a", "t", "i", "v", "e", "_", "u", "r", "l">>, Str(<<"m", "e">>)>> >>) >>),
    Str(<<"m", "e">>), Undefined, Obj(<<>>) }
BatchExtras == {Obj(<< <<<<"i", "n", "c", "l", "u", "d", "e", "_", "h", "e", "a", "d", "e", "r", "s">>, Str(S_false)>> >>)}

AuthorizeParams ==
  {Obj(<< <<<<"c", "l", "i", "e", "n", "t", "_", "i", "d">>, Str(<<"1">>)>>, <<<<"c", "o", "d", "e">>, Str(<<"c">>)>> >>)}

ExtendParamSets ==
  { Obj(<< <<<<"c", "l", "i", "e", "n", "t", "_", "i", "d">>, Str(<<"1">>)>> >>),
    Obj(<< <<<<"c", "l", "i", "e", "n", "t", "_", "i", "d">>, Str(<<"1">>)>>, <<S_access_token, Str(T_url)>> >>) }

\* the bodies a response carries: text, or a value the transport parsed
Bodies ==
  { Str(<<"{", "\"", "i", "d", "\"", ":", "\"", "1", "\"", "}">>),
    Str(<<"t", "r", "u", "e">>),
    Str(<<>>),
    Str(<<"{", "\"", "e", "r", "r", "o", "r", "\"", ":", "{", "\"", "m", "e", "s", "s", "a", "g", "e", "\"", ":", "\"", "b", "a", "d", "\"", "}", "}">>),
    Str(<<"{", "\"", "e", "r", "r", "o", "r", "\"", ":", "\"", "x", "\"", ",", "\"", "i", "d", "\"", ":", "\"", "1", "\"", "}">>),
    Str(<<"{", "\"", "e", "r", "r", "o", "r", "\"", ":", "f", "a", "l", "s", "e", "}">>),
    Str(<<"{", "\"", "e", "r", "r", "o", "r", "\"", ":", "0", "}">>),
    Str(<<"{", "\"", "e", "r", "r", "o", "r", "\"", ":", "n", "u", "l", "l", "}">>),
    Str(<<"{", "\"", "e", "r", "r", "o", "r", "\"", ":", "\"", "\"", "}">>),
    Str(<<"n", "o", "t", " ", "j", "s", "o", "n", " ", "{">>),
    Str(<<"{", "n", "o", "t", " ", "j", "s", "o", "n", "}">>),
    Str(<<"}", "{">>),
    Str(<<"e", "r", "r", "o", "r", "=", "x">>),
    Str(<<"e", "r", "r", "o", "r", "=">>),
    Str(<<"a", "c", "c", "e", "s", "s", "_", "t", "o", "k", "e", "n", "=", "R", "1", "&", "e", "x", "p", "i", "r", "e", "s", "=", "5">>),
    Str(<<"{", "\"", "a", "c", "c", "e", "s", "s", "_", "t", "o", "k", "e", "n", "\"", ":", "\"", "R", "1", "\"", "}">>),
    Str(<<"{", "\"", "s", "u", "c", "c", "e", "s", "s", "\"", ":", "t", "r", "u", "e", "}">>),
    Obj(<< <<S_error, Obj(<< <<S_message, Str(<<"b", "a", "d">>)>> >>)>> >>),
    Obj(<< <<S_error, Bool(FALSE)>> >>),
    Obj(<< <<S_access_token, Str(T_fresh)>> >>),
    Null,
    Bool(FALSE) }

\* the responses: every body as JSON, and a picture with and without a location,
\* and a response that names no content type
Responses ==
  {[contentType |-> Str(<<"a", "p", "p", "l", "i", "c", "a", "t", "i", "o", "n", "/", "j", "s", "o", "n">>), location |-> Undefined, body |-> b] : b \in Bodies}
  \cup {[contentType |-> Str(<<"i", "m", "a", "g", "e", "/", "j", "p", "e", "g">>), location |-> l, body |-> Str(<<>>)] :
          l \in {Undefined, Str(<<"h", "t", "t", "p", ":", "/", "/", "i", "/", "p", ".", "j", "p", "g">>)}}
  \cup {[contentType |-> Undefined, location |-> Undefined, body |-> Str(<<"{", "\"", "i", "d", "\"", ":", "\"", "1", "\"", "}">>)]}

FailureModes    == {"callback", "event", "both"}
TransportErrors == {Exc("ETIMEDOUT")}

(***************************************************************************)
(* The client from its construction on.                                    *)
(***************************************************************************)

Init ==
  /\ accessToken = Undefined
  /\ appSecret = Undefined
  /\ graphUrl = DefaultGraphUrl
  /\ graphVersion = DefaultGraphVersion
  /\ oauthDialogUrl = <<"h", "t", "t", "p", "s", ":", "/", "/", "w", "w", "w", ".", "f", "a", "c", "e", "b", "o", "o", "k", ".", "c", "o", "m", "/", "v", "2", ".", "0", "/", "d", "i", "a", "l", "o", "g", "/", "o", "a", "u", "t", "h", "?">>
  /\ oauthDialogUrlMobile = <<"h", "t", "t", "p", "s", ":", "/", "/", "m", ".", "f", "a", "c", "e", "b", "o", "o", "k", ".", "c", "o", "m", "/", "v", "2", ".", "0", "/", "d", "i", "a", "l", "o", "g", "/", "o", "a", "u", "t", "h", "?">>
  /\ pc = "idle"
  /\ call = NoCall
  /\ stream = NoStream
  /\ response = NoResponse
  /\ cbLog = <<>>
  /\ threw = FALSE
  /\ promise = NoPromise

Next ==
  \/ \E t \in AccessTokens : SetAccessToken(t)
  \/ \E t \in AppSecrets : SetAppSecret(t)
  \/ \E u \in GraphUrls : SetGraphUrl(u)
  \/ \E v \in Versions : SetVersion(v)
  \/ \E u \in UrlArgs : Get(u, UserCallback, Undefined)
  \/ \E u \in UrlArgs, p \in GetParams : Get(u, p, UserCallback)
  \/ \E u \in UrlArgs : Post(u, UserCallback, Undefined)
  \/ \E u \in UrlArgs, d \in PostDatas : Post(u, d, UserCallback)
  \/ \E u \in UrlArgs : Del(u, UserCallback, Undefined)
  \/ \E u \in UrlArgs, d \in PostDatas : Del(u, d, UserCallback)
  \/ \E r \in BatchReqs : Batch(r, UserCallback, Undefined)
  \/ \E r \in BatchReqs, x \in BatchExtras : Batch(r, x, UserCallback)
  \/ \E p \in AuthorizeParams : Authorize(p)
  \/ \E p \in ExtendParamSets : ExtendAccessToken(p)
  \/ \E p \in AuthorizeParams : PromiseAuthorize(p)
  \/ \E p \in ExtendParamSets : PromiseExtendAccessToken(p)
  \/ \E m \in FailureModes, e \in TransportErrors : GetFailure(m, e)
  \/ \E m \in FailureModes, e \in TransportErrors : PostFailure(m, e)
  \/ \E r \in Responses : GetResponse(r.contentType, r.location, r.body)
  \/ \E r \in Responses : PostResponse(r.contentType, r.location, r.body)
  \/ Return

Spec == Init /\ [][Next]_vars

(***************************************************************************)
(* URL resolution over a grammar of paths: a base, then up to MaxParams    *)
(* query parameters.  The client starts in any configuration its setters   *)
(* reach and issues one call.                                              *)
(***************************************************************************)

MaxParams == 2

Bases == {<<"m", "e">>, <<" ", "/", "m", "e">>, <<"h", "t", "t", "p", "s", ":", "/", "/", "h", "/", "m", "e">>}

Fragments ==
  { <<"a", "c", "c", "e", "s", "s", "_", "t", "o", "k", "e", "n", "=", "U", "1">>,
    <<"a", "c", "c", "e", "s", "s", "_", "t", "o", "k", "e", "n", "=">>,
    <<"x", "a", "c", "c", "e", "s", "s", "_", "t", "o", "k", "e", "n", "=", "U", "2">>,
    <<"a", "p", "p", "s", "e", "c", "r", "e", "t", "_", "p", "r", "o", "o", "f", "=", "a", "b">>,
    <<"m", "e", "t", "h", "o", "d", "=", "d", "e", "l", "e", "t", "e">>,
    <<"M", "E", "T", "H", "O", "D", "=", "D", "E", "L", "E", "T", "E">>,
    <<"x", "m", "e", "t", "h", "o", "d", "=", "d", "e", "l", "e", "t", "e">> }

QueryText(q) == IF q = <<>> THEN <<>> ELSE <<"?">> \o Join(q, <<"&">>)

GrammarPaths ==
  {b \o QueryText(q) :
     b \in Bases, q \in UNION {[1..k -> Fragments] : k \in 0..MaxParams}}

InitUrl ==
  /\ accessToken \in {Undefined, Str(T_user)}
  /\ appSecret \in {Undefined} \cup AppSecrets
  /\ graphUrl \in {DefaultGraphUrl} \cup GraphUrls
  /\ graphVersion \in {DefaultGraphVersion} \cup Versions
  /\ oauthDialogUrl =
       IF graphVersion = DefaultGraphVersion
         THEN <<"h", "t", "t", "p", "s", ":", "/", "/", "w", "w", "w", ".", "f", "a", "c", "e", "b", "o", "o", "k", ".", "c", "o", "m", "/", "v", "2", ".", "0", "/", "d", "i", "a", "l", "o", "g", "/", "o", "a", "u", "t", "h", "?">>
         ELSE S_dialog_www \o graphVersion \o S_dialog_oauth
  /\ oauthDialogUrlMobile =
       IF graphVersion = DefaultGraphVersion
         THEN <<"h", "t", "t", "p", "s", ":", "/", "/", "m", ".", "f", "a", "c", "e", "b", "o", "o", "k", ".", "c", "o", "m", "/", "v", "2", ".", "0", "/", "d", "i", "a", "l", "o", "g", "/", "o", "a", "u", "t", "h", "?">>
         ELSE S_dialog_mobile \o graphVersion \o S_dialog_oauth
  /\ pc = "idle"
  /\ call = NoCall
  /\ stream = NoStream
  /\ response = NoResponse
  /\ cbLog = <<>>
  /\ threw = FALSE
  /\ promise = NoPromise

NextUrl ==
  \/ \E p \in GrammarPaths : Get(Str(p), UserCallback, Undefined)
  \/ \E p \in GrammarPaths : Del(Str(p), UserCallback, Undefined)

SpecUrl == InitUrl /\ [][NextUrl]_vars

(***************************************************************************)
(* Properties of a completed call.                                         *)
(***************************************************************************)

\* null or undefined
Nullish(x) == x.t \in {"null", "undefined"}

\* the error end builds in its catch block
IsParseError(err) ==
  /\ TypeOf(err) = "object"
  /\ JsGet(err, S_message) = Str(S_ErrorParsingJson)
  /\ HasKey(err, S_exception)

\* a call that went through a GraphStream has completed
StreamCompleted == pc = "done" /\ stream # NoStream

\* the transport answered and the stream's callback was invoked once
Answered == StreamCompleted /\ response.kind = "response" /\ Len(cbLog) = 1

\* C1: for every call issued through GraphStream and every transport outcome,
\* the completion callback is invoked exactly once.
C1_InvokedExactlyOnce == StreamCompleted => Len(cbLog) = 1

\* C2, as stated: every invocation of the completion callback carries either a
\* null error and a non-null result, or a non-null error and a null result.
C2_ExactlyOneOutcome ==
  \A i \in 1..Len(cbLog) :
    \/ Nullish(cbLog[i].err) /\ ~Nullish(cbLog[i].res)
    \/ ~Nullish(cbLog[i].err) /\ Nullish(cbLog[i].res)

\* the payload is delivered next to the error it holds
RemoteErrorWithPayload(r) ==
  /\ Truthy(JsGet(r.res, S_error))
  /\ r.err = JsGet(r.res, S_error)

\* a falsy body that is no string is handed on next to the parse error
FalsyBodyWithParseError(r) ==
  /\ response.kind = "response"
  /\ TypeOf(response.body) # "string"
  /\ ~Truthy(response.body)
  /\ r.res = response.body
  /\ IsParseError(r.err)

\* C2, amended: an invocation carries a null error and a non-null result, or a
\* non-null error and a null result, or a non-null error next to a delivered
\* value: the parsed payload whose truthy `error` is that error, or a falsy
\* non-string body next to the parse error.  Every error that is neither a
\* transport failure, a parse failure nor an invalid input arrives with the
\* payload that holds it; a string body that fails to parse yields a null result.
C2_OutcomeShape ==
  /\ \A i \in 1..Len(cbLog) :
       \/ Nullish(cbLog[i].err) /\ ~Nullish(cbLog[i].res)
       \/ ~Nullish(cbLog[i].err) /\ Nullish(cbLog[i].res)
       \/ /\ ~Nullish(cbLog[i].err)
          /\ ~Nullish(cbLog[i].res)
          /\ RemoteErrorWithPayload(cbLog[i]) \/ FalsyBodyWithParseError(cbLog[i])
  /\ Answered /\ ~Nullish(cbLog[1].err) /\ ~IsParseError(cbLog[1].err)
       => RemoteErrorWithPayload(cbLog[1])
  /\ Answered /\ IsParseError(cbLog[1].err) /\ TypeOf(response.body) = "string"
       => Nullish(cbLog[1].res)

\* C2: a response whose payload holds a truthy `error` was delivered: the callback
\* got the error and the payload together
C2_Witness ==
  /\ Answered
  /\ ~Nullish(cbLog[1].err)
  /\ cbLog[1].res.t = "object"
  /\ HasKey(cbLog[1].res, <<"i", "d">>)
  /\ RemoteErrorWithPayload(cbLog[1])

\* an operation was called with an argument it rejects
InvalidInputCall ==
  \/ call.op \in {"get", "post", "del"} /\ call.url.t # "string"
  \/ call.op = "batch" /\ call.url.t # "array"

\* C5: get, post or del with a non-string URL, or batch with a non-array, throws
\* nothing, issues no request and invokes the callback once with an error and a
\* null result.
C5_InvalidInputReported ==
  pc = "done" /\ InvalidInputCall =>
    /\ ~threw
    /\ stream = NoStream
    /\ Len(cbLog) = 1
    /\ TypeOf(cbLog[1].err) = "object" /\ HasKey(cbLog[1].err, S_message)
    /\ cbLog[1].res = Null

\* C6, as stated: a normalized value holding an `error` key, whatever is under
\* it, completes the call as a failure whose error is that value; a normalized
\* value without one, parsing having succeeded, completes it as a success.
C6_ErrorKeyFails ==
  Answered /\ ~IsParseError(cbLog[1].err) =>
    IF HasKey(cbLog[1].res, S_error)
      THEN ~Nullish(cbLog[1].err) /\ cbLog[1].err = JsGet(cbLog[1].res, S_error)
      ELSE Nullish(cbLog[1].err)

\* C6, amended: a normalized value whose `error` is truthy completes the call as
\* a failure whose error is that value; a normalized value whose `error` is
\* missing or falsy (false, 0, null, the empty string), parsing having
\* succeeded, completes it as a success.
C6_TruthyErrorFails ==
  Answered /\ ~IsParseError(cbLog[1].err) =>
    IF Truthy(JsGet(cbLog[1].res, S_error))
      THEN cbLog[1].err = JsGet(cbLog[1].res, S_error)
      ELSE cbLog[1].err = Null

\* C6: a response whose payload holds `error` with a falsy value completed as a
\* success
C6_Witness ==
  /\ Answered
  /\ HasKey(cbLog[1].res, S_error)
  /\ ~Truthy(JsGet(cbLog[1].res, S_error))
  /\ cbLog[1].err = Null

\* end(body) ran on a string body
EndedOnText ==
  /\ Answered
  /\ response.body.t = "string"
  /\ stream.method = "GET" => IndexOf(response.contentType.v, S_image) = -1

HasOpen(s)  == IndexOf(s, <<"{">>) # -1
HasClose(s) == IndexOf(s, <<"}">>) # -1

\* the call failed with "Error parsing json" and the parse exception as cause
FailedParsing ==
  /\ ~threw
  /\ cbLog = <<[err |-> ParseError(Exc("SyntaxError")), res |-> Null]>>

\* C7, as stated: a string body that contains `{` or `}` and is not valid JSON
\* completes the call as a failure "Error parsing json" with the parse exception
\* as cause; no exception escapes end.
C7_BraceTextFails ==
  /\ EndedOnText
  /\ HasOpen(response.body.v) \/ HasClose(response.body.v)
  /\ ~JsonParse(response.body.v).ok
  => FailedParsing

\* C7, amended: a string body that contains both `{` and `}` and is not valid
\* JSON completes the call as a failure "Error parsing json" with the parse
\* exception as cause; no exception escapes end.
C7_BothBracesFail ==
  /\ EndedOnText
  /\ HasOpen(response.body.v) /\ HasClose(response.body.v)
  /\ ~JsonParse(response.body.v).ok
  => FailedParsing

\* C7: a body with both braces that is no JSON was answered with the parse error
C7_Witness ==
  /\ EndedOnText
  /\ HasOpen(response.body.v) /\ HasClose(response.body.v)
  /\ ~JsonParse(response.body.v).ok
  /\ IsParseError(cbLog[1].err)
  /\ cbLog[1].res = Null

\* authorize or extendAccessToken of the callback facade has completed
TokenCallCompleted ==
  /\ pc = "done"
  /\ call.facade = "callback"
  /\ call.op \in {"authorize", "extendAccessToken"}
  /\ Len(cbLog) >= 1

\* C9, as stated: after authorize or extendAccessToken completes with a success
\* the access token is the response's access_token; after it completes with an
\* error the access token is what it was before the call.
C9_TokenFromResponse ==
  TokenCallCompleted =>
    IF Nullish(cbLog[1].err)
      THEN accessToken = JsGet(cbLog[1].res, S_access_token)
      ELSE accessToken = call.tokenBefore

\* C9, amended: after authorize, or extendAccessToken whose params carry no
\* access_token, completes with a success the access token is the response's
\* access_token; after extendAccessToken whose params carry an access_token, and
\* after an error, the access token is what it was before the call.
C9_TokenUnlessParamsToken ==
  TokenCallCompleted =>
    IF Nullish(cbLog[1].err) /\ ~call.paramsToken
      THEN accessToken = JsGet(cbLog[1].res, S_access_token)
      ELSE accessToken = call.tokenBefore

\* C9: extendAccessToken with an access_token in its params succeeded and the
\* access token is not the one of the response
C9_Witness ==
  /\ TokenCallCompleted
  /\ call.op = "extendAccessToken"
  /\ call.paramsToken
  /\ Nullish(cbLog[1].err)
  /\ JsGet(cbLog[1].res, S_access_token) = Str(T_fresh)
  /\ accessToken = call.tokenBefore
  /\ accessToken # Str(T_fresh)

\* the access token the callback facade is left with after the invocations of log
RECURSIVE CallbackFacadeToken(_, _, _, _)
CallbackFacadeToken(op, token, paramsToken, log) ==
  IF log = <<>> THEN token
  ELSE CallbackFacadeToken(
         op,
         IF op = "authorize"
           THEN AuthorizeCallbackToken(token, Head(log).err, Head(log).res)
           ELSE ExtendCallbackToken(token, paramsToken, Head(log).err, Head(log).res),
         paramsToken,
         Tail(log))

\* C10: PromiseGraph.authorize and PromiseGraph.extendAccessToken leave the
\* access token as Graph.authorize and Graph.extendAccessToken do for the same
\* configuration, params and response, and resolve exactly when the callback
\* form gets a null error, reject exactly when it gets an error.
C10_PromiseIsAdapter ==
  pc = "done" /\ call.facade = "promise" =>
    /\ accessToken =
         CallbackFacadeToken(call.op, call.tokenBefore, call.paramsToken, cbLog)
    /\ promise.state = "resolved" <=> (cbLog # <<>> /\ Nullish(cbLog[1].err))
    /\ promise.state = "rejected" <=> (cbLog # <<>> /\ ~Nullish(cbLog[1].err))

(***************************************************************************)
(* Properties of the resolved URL.                                         *)
(***************************************************************************)

\* the query string of s names the parameter key
HasParam(s, key) ==
  \E i \in 1..Len(s) : s[i] \in {"?", "&"} /\ MatchAt(s, key \o <<"=">>, i + 1)

\* what follows the first occurrence of text in s, up to the next "&"
ValueAfter(s, text) == UpToAmp(SliceFrom(s, IndexOf(s, text) + Len(text)))

\* the character before the first occurrence of text in s
JoinedBy(s, text) == CharAt(s, IndexOf(s, text) - 1)

\* the resolved URL holds access_token= once, followed by the client's token and
\* joined to the path's query string
TokenAppendedOnce ==
  /\ Count(stream.uri, S_access_token_eq) = 1
  /\ ValueAfter(stream.uri, S_access_token_eq) = call.tokenBefore.v
  /\ JoinedBy(stream.uri, S_access_token_eq) =
       IF IndexOf(stream.url, <<"?">>) = -1 THEN <<"?">> ELSE <<"&">>

\* C3, as stated: for every path without an access_token parameter, when the
\* access token is set, the resolved URL contains access_token= exactly once,
\* followed by the client's token, joined with ? to a path without a query
\* string and with & otherwise.
C3_TokenForPathWithoutParam ==
  /\ stream # NoStream
  /\ Truthy(call.tokenBefore)
  /\ ~HasParam(stream.url, S_access_token)
  => TokenAppendedOnce

\* C3, amended: for every path that does not contain the text access_token=
\* anywhere, not even as the tail of another parameter's name, when the access
\* token is set, the resolved URL contains access_token= exactly once, followed
\* by the client's token, joined with ? to a path without a query string and
\* with & otherwise.
C3_TokenForPathWithoutText ==
  /\ stream # NoStream
  /\ Truthy(call.tokenBefore)
  /\ IndexOf(stream.url, S_access_token_eq) = -1
  => TokenAppendedOnce

\* C3: an absolute path with a query string and without the text got the token,
\* with an app secret set
C3_Witness ==
  /\ stream # NoStream
  /\ Truthy(call.tokenBefore)
  /\ Truthy(appSecret)
  /\ IndexOf(stream.url, S_access_token_eq) = -1
  /\ IndexOf(stream.url, <<"?">>) # -1
  /\ Substr(stream.url, 0, 4) = S_http
  /\ JoinedBy(stream.uri, S_access_token_eq) = <<"&">>
  /\ ValueAfter(stream.uri, S_access_token_eq) = T_user

\* the X of the path's first access_token=X
EmbeddedToken == ValueAfter(Trim(stream.url), S_access_token_eq)

\* a path with access_token=X and without appsecret_proof, an app secret set
EmbeddedTokenToSign ==
  /\ stream # NoStream
  /\ Truthy(appSecret)
  /\ IndexOf(stream.url, S_access_token_eq) # -1
  /\ IndexOf(stream.url, S_appsecret_proof) = -1

\* the resolved URL holds one appsecret_proof=, the HMAC of the embedded token
ProofOfEmbeddedToken ==
  /\ Count(stream.uri, S_appsecret_proof_eq) = 1
  /\ ValueAfter(stream.uri, S_appsecret_proof_eq) =
       HmacSha256Hex(appSecret.v, EmbeddedToken)

\* C4, as stated: for every path containing access_token=X, the empty X
\* included, and no appsecret_proof, when the app secret is set the resolved URL
\* has exactly one appsecret_proof= and its value is the hex HMAC-SHA256 of X
\* under the app secret.
C4_ProofForEveryEmbeddedToken == EmbeddedTokenToSign => ProofOfEmbeddedToken

\* C4, amended: for every path containing access_token=X with X not empty (X the
\* text between the path's first access_token= and the next &) and not
\* containing the text appsecret_proof, when the app secret is set the resolved
\* URL has exactly one appsecret_proof= and its value is the hex HMAC-SHA256 of
\* X under the app secret; for the empty X no appsecret_proof is added.
C4_ProofForNonEmptyEmbeddedToken ==
  EmbeddedTokenToSign =>
    IF EmbeddedToken # <<>>
      THEN ProofOfEmbeddedToken
      ELSE Count(stream.uri, S_appsecret_proof) = 0

\* C4: a path embedding a token other than the client's was signed with the
\* embedded one
C4_Witness ==
  /\ EmbeddedTokenToSign
  /\ Truthy(call.tokenBefore)
  /\ EmbeddedToken = T_url
  /\ EmbeddedToken # call.tokenBefore.v
  /\ ProofOfEmbeddedToken

\* the places of s where method=delete, in any letter case, follows ?, & or |
MethodDeleteMarks(s) ==
  {i \in 1..Len(s) :
     s[i] \in {"?", "&", "|"} /\ MatchAt(ToLower(s), S_method_delete, i + 1)}

\* del was called with a string path
DelCalled == call.op = "del" /\ stream # NoStream

\* C8, as stated: for every string path given to del the resolved URL contains
\* method=delete exactly once, and the request is a POST.
C8_MethodDeleteOnce ==
  DelCalled =>
    /\ Count(stream.uri, S_method_delete) = 1
    /\ stream.method = "POST"

\* C8, amended: for every string path given to del the request is a POST, and
\* the resolved URL holds the path's method=delete markers (the text in any
\* letter case directly after ?, & or |) as they were written when the path has
\* any, else the path followed by one method=delete in lower case; the text
\* method=delete occurs as often as the path holds it in lower case, plus one
\* when it is appended.
C8_MethodDeleteMarked ==
  DelCalled =>
    /\ stream.method = "POST"
    /\ IF MethodDeleteMarks(call.url.v) = {}
         THEN /\ stream.url = call.url.v \o Joiner(call.url.v) \o S_method_delete
              /\ Cardinality(MethodDeleteMarks(stream.uri)) = 1
              /\ Count(stream.uri, S_method_delete)
                   = Count(call.url.v, S_method_delete) + 1
         ELSE /\ stream.url = call.url.v
              /\ Cardinality(MethodDeleteMarks(stream.uri))
                   = Cardinality(MethodDeleteMarks(call.url.v))
              /\ Count(stream.uri, S_method_delete)
                   = Count(call.url.v, S_method_delete)

\* C8: del of a path whose only marker is in upper case sent a POST to a URL
\* without the lower-case text
C8_Witness ==
  /\ DelCalled
  /\ stream.method = "POST"
  /\ MethodDeleteMarks(call.url.v) # {}
  /\ Count(stream.uri, S_method_delete) = 0

=============================================================================
